---- MODULE Spec2Model ----
(***************************************************************************)
(* COBOT config tester: the App component (src/src/App.svelte), its        *)
(* JointControl children (src/src/lib/JointControl.svelte) and the Tauri   *)
(* backend seen through invoke(): every invoke is a request in flight that *)
(* the backend later resolves or rejects, in any order.                    *)
(*                                                                         *)
(* A step of the model is one JavaScript task: a user event handler, a     *)
(* timer callback or a promise callback, together with the re-render       *)
(* Svelte performs before the next task (mounting or destroying the        *)
(* JointControl instances under the {#if connected}{#if initialized}       *)
(* blocks).                                                                *)
(***************************************************************************)
EXTENDS Integers, Sequences, FiniteSets, TLC

\* ------------------------------------------------------------- constants
\* JOINTS.length
NJoints == 6
\* JointControl props, defaults (App passes none of them)
minAngle == -180
maxAngle == 180
minSpeed == 0
maxSpeed == 180
\* the mask of the "Calibrate All" button, 0b111111
CalibrateAll == 63

\* ---------------------------------------------------------------- bounds
\* intervals the run may create: Connect is clicked only while fewer init
\* chains than this are started
MaxTimers == 2
\* backend requests in flight at once
MaxInFlight == 2

Joints == 0 .. (NJoints - 1)
\* the joints whose controls the user operates; the JointControl instances
\* share no state, so the others only show their angle
Operated == {2}

\* a number input bound with bind:value holds null (empty) or a number
Null == << >>
Num(n) == << n >>
\* what the user types in JointSpec: empty, each bound, one unit beyond each
AngleInputs == {Null, Num(minAngle - 1), Num(minAngle), Num(maxAngle), Num(maxAngle + 1)}
SpeedInputs == {Null, Num(minSpeed - 1), Num(minSpeed), Num(maxSpeed), Num(maxSpeed + 1)}
\* what the user types in Spec (the fields are prefilled with the measured
\* angle and speed 0)
AppAngleInputs == {Null, Num(maxAngle), Num(maxAngle + 1)}
AppSpeedInputs == {Num(maxSpeed + 1)}

\* what get_angles resolves with: an array of any length, or something that
\* is no array
Arrays(lengths, vals) == { [i \in 1 .. n |-> v] : n \in lengths, v \in vals }
\* in Spec: one value too few, one per joint, or one too many
Received == Arrays({NJoints - 1, NJoints, NJoints + 1}, {maxAngle})

\* in JointSpec telemetry is well formed: one value per joint
JointReceived == Arrays({NJoints}, {0, maxAngle})

VARIABLES
  connected,     \* App: let connected
  initialized,   \* App: let initialized
  angles,        \* App: let angles (index i + 1 holds angles[i])
  isConnected,   \* the startup invoke("is_connected") is in flight
  connects,      \* invoke("connect") requests in flight
  inits,         \* invoke("init") requests in flight
  disconnects,   \* invoke("disconnect") requests in flight
  fetches,       \* invoke("get_angles") requests in flight
  timers,        \* intervals created by setInterval (none is ever cleared)
  retry,         \* a setTimeout(init, 1000) is pending (part_000 only)
  mounted,       \* the JointControl instances exist
  jc,            \* per operated joint: the instance's let variables
  cmds,          \* move_joint / stop_joint requests in flight, oldest first
  session,       \* history: the link session, as the backend's replies tell it
  last           \* history: the task that ran last

vars ==
  << connected, initialized, angles, isConnected, connects, inits, disconnects,
     fetches, timers, retry, mounted, jc, cmds, session, last >>

app == << connected, initialized, angles, isConnected, connects, inits, disconnects,
          fetches, timers, retry >>

\* requests the backend has not answered yet
InFlight ==
  (IF isConnected THEN 1 ELSE 0) + connects + inits + disconnects + fetches + Len(cmds)

\* init chains started: each may end in one setInterval
Chains == (IF isConnected THEN 1 ELSE 0) + connects + inits + timers

Ev(op, n) == [op |-> op, n |-> n]

\* The session as the history of backend replies defines it: Connected after
\* a connect that succeeded (or a positive is_connected), Ready after an
\* init that succeeded on it, and after a disconnect that succeeded
\* Disconnected if the session was never Ready, Closed if it was;
\* Reconnected is Connected after Closed.
Linked(s) == IF s = "Disconnected" THEN "Connected" ELSE IF s = "Closed" THEN "Reconnected" ELSE s
Brought(s) == IF s \in {"Connected", "Reconnected"} THEN "Ready" ELSE s
Unlinked(s) == IF s \in {"Ready", "Closed", "Reconnected"} THEN "Closed" ELSE "Disconnected"

\* ------------------------------------------------------- JointControl
\* let targetSpeed = 0, targetAngle = 0, angleInput = angle, speedInput = targetSpeed
Fresh(angle) ==
  [targetAngle |-> 0, targetSpeed |-> 0, angleInput |-> Num(angle), speedInput |-> Num(0)]

\* the angle prop: angle={angles[joint.id]}
AngleProp(j) == angles[j + 1]

\* InRange with a seeded fault: the comparisons are strict
InRangeExclusive(x, lo, hi) == x # Null /\ x[1] > lo /\ x[1] < hi

\* x !== null && x >= lo && x <= hi
InRange(x, lo, hi) == x # Null /\ x[1] >= lo /\ x[1] <= hi

\* angleInputValid with a seeded fault: the lower bound is not checked
angleInputValidNoMin(j) == jc[j].angleInput # Null /\ jc[j].angleInput[1] <= maxAngle

angleInputValid(j) == InRange(jc[j].angleInput, minAngle, maxAngle)

speedInputValid(j) == InRange(jc[j].speedInput, minSpeed, maxSpeed)

\* moving with a seeded fault: the commanded speed is compared
movingBySpeed(j) == jc[j].targetSpeed # AngleProp(j)

\* $: moving = targetAngle != angle
moving(j) == jc[j].targetAngle # AngleProp(j)

\* the commanded state the control shows: targetAngle, targetSpeed
Commanded(j) == << jc[j].targetAngle, jc[j].targetSpeed >>

RemoveAt(s, i) == SubSeq(s, 1, i - 1) \o SubSeq(s, i + 1, Len(s))

\* a request in flight and its callbacks' closure: the joint, the angle and
\* speed moveTo was called with, and whether the instance that sent it still
\* exists (live). History: overtaken, a move_joint submitted later for the
\* same joint has been acknowledged already.
Move(j, a, s) ==
  [op |-> "move_joint", joint |-> j, angle |-> a, speed |-> s, live |-> TRUE,
   overtaken |-> FALSE]
Stop(j) ==
  [op |-> "stop_joint", joint |-> j, angle |-> 0, speed |-> 0, live |-> TRUE,
   overtaken |-> FALSE]

\* moveTo(angle, speed): returns on null, otherwise invokes move_joint
moveTo(j, angle, speed) ==
  IF angle = Null \/ speed = Null
    THEN cmds
    ELSE Append(cmds, Move(j, angle[1], speed[1]))

\* stop(): invokes stop_joint
stop(j) == Append(cmds, Stop(j))

\* bind:value={angleInput}
SetAngleInput(j, v) ==
  /\ mounted
  /\ jc' = [jc EXCEPT ![j].angleInput = v]
  /\ last' = Ev("angle_input", j)
  /\ UNCHANGED << app, mounted, cmds, session >>

\* bind:value={speedInput}
SetSpeedInput(j, v) ==
  /\ mounted
  /\ jc' = [jc EXCEPT ![j].speedInput = v]
  /\ last' = Ev("speed_input", j)
  /\ UNCHANGED << app, mounted, cmds, session >>

\* SubmitForm with a seeded fault: moveTo is called whatever the validity
SubmitFormUnchecked(j) ==
  /\ mounted
  /\ InFlight < MaxInFlight
  /\ cmds' = moveTo(j, jc[j].angleInput, jc[j].speedInput)
  /\ last' = Ev("submit_form", j)
  /\ UNCHANGED << app, mounted, jc, session >>

\* form on:submit
SubmitForm(j) ==
  /\ mounted
  /\ InFlight < MaxInFlight
  /\ cmds' = IF angleInputValid(j) /\ speedInputValid(j)
               THEN moveTo(j, jc[j].angleInput, jc[j].speedInput)
               ELSE cmds
  /\ last' = Ev("submit_form", j)
  /\ UNCHANGED << app, mounted, jc, session >>

\* the Submit button: a disabled button dispatches no click
ClickSubmit(j) ==
  /\ mounted
  /\ InFlight < MaxInFlight
  /\ cmds' = IF ~angleInputValid(j) \/ ~speedInputValid(j)
               THEN cmds
               ELSE moveTo(j, jc[j].angleInput, jc[j].speedInput)
  /\ last' = Ev("click_submit", j)
  /\ UNCHANGED << app, mounted, jc, session >>

\* the STOP button, disabled={!moving}
ClickStop(j) ==
  /\ mounted
  /\ InFlight < MaxInFlight
  /\ cmds' = IF ~moving(j) THEN cmds ELSE stop(j)
  /\ last' = Ev("click_stop", j)
  /\ UNCHANGED << app, mounted, jc, session >>

\* the .then callbacks of moveTo and stop; a destroyed instance's callback
\* still runs and writes only that instance's variables
Acked(c) ==
  IF c.live
    THEN [jc EXCEPT ![c.joint].targetAngle = c.angle, ![c.joint].targetSpeed = c.speed]
    ELSE jc

\* history: the moves of the same joint submitted before cmds[i], a move
\* being acknowledged, are overtaken
Overtake(i) ==
  [k \in DOMAIN cmds |->
     IF k < i /\ cmds[i].op = "move_joint" /\ cmds[k].op = "move_joint"
        /\ cmds[k].joint = cmds[i].joint
       THEN [cmds[k] EXCEPT !.overtaken = TRUE]
       ELSE cmds[k]]

CmdOk(i) ==
  /\ i \in DOMAIN cmds
  /\ jc' = Acked(cmds[i])
  /\ cmds' = RemoveAt(Overtake(i), i)
  /\ last' = Ev(IF cmds[i].op = "move_joint" THEN "move_joint_ok" ELSE "stop_joint_ok", i)
  /\ UNCHANGED << app, mounted, session >>

\* the .catch callbacks of moveTo and stop: console.error
CmdFail(i) ==
  /\ i \in DOMAIN cmds
  /\ cmds' = RemoveAt(cmds, i)
  /\ last' = Ev(IF cmds[i].op = "move_joint" THEN "move_joint_failed" ELSE "stop_joint_failed", i)
  /\ UNCHANGED << app, mounted, jc, session >>

\* ------------------------------------------------------------------ App
\* the re-render after connected / initialized changed to (c, i): the
\* JointControl instances are created under {#if connected}{#if initialized}
\* and destroyed when either turns false
Render(c, i) ==
  /\ mounted' = (c /\ i)
  /\ jc' = IF ~mounted /\ c /\ i THEN [j \in Operated |-> Fresh(AngleProp(j))] ELSE jc
  /\ cmds' = IF mounted /\ ~(c /\ i)
               THEN [k \in DOMAIN cmds |-> [cmds[k] EXCEPT !.live = FALSE]]
               ELSE cmds

\* invoke("is_connected").then: connected = isConnected ? true : false; init()
IsConnectedOk(b) ==
  /\ isConnected
  /\ isConnected' = FALSE
  /\ connected' = b
  /\ inits' = IF b THEN inits + 1 ELSE inits
  /\ Render(b, initialized)
  /\ session' = IF b THEN Linked(session) ELSE session
  /\ last' = Ev("is_connected_ok", IF b THEN 1 ELSE 0)
  /\ UNCHANGED << initialized, angles, connects, disconnects, fetches, timers, retry >>

\* invoke("is_connected") rejected: no handler
IsConnectedFail ==
  /\ isConnected
  /\ isConnected' = FALSE
  /\ last' = Ev("is_connected_failed", 0)
  /\ UNCHANGED << connected, initialized, angles, connects, inits, disconnects, fetches,
                  timers, mounted, jc, cmds, session, retry >>

\* the Connect button, rendered under {:else} of {#if connected}
ClickConnect ==
  /\ ~connected
  /\ Chains < MaxTimers
  /\ InFlight < MaxInFlight
  /\ connects' = connects + 1
  /\ last' = Ev("click_connect", 0)
  /\ UNCHANGED << connected, initialized, angles, isConnected, inits, disconnects, fetches,
                  timers, mounted, jc, cmds, session, retry >>

\* invoke("connect").then: connected = true; init()
ConnectOk ==
  /\ connects > 0
  /\ connects' = connects - 1
  /\ connected' = TRUE
  /\ inits' = inits + 1
  /\ Render(TRUE, initialized)
  /\ session' = Linked(session)
  /\ last' = Ev("connect_ok", 0)
  /\ UNCHANGED << initialized, angles, isConnected, disconnects, fetches, timers, retry >>

\* invoke("connect").catch: window.alert(e)
ConnectFail ==
  /\ connects > 0
  /\ connects' = connects - 1
  /\ last' = Ev("connect_failed", 0)
  /\ UNCHANGED << connected, initialized, angles, isConnected, inits, disconnects, fetches,
                  timers, mounted, jc, cmds, session, retry >>

\* invoke("init").then: initialized = true; setInterval(...)
InitOk ==
  /\ inits > 0
  /\ inits' = inits - 1
  /\ initialized' = TRUE
  /\ timers' = timers + 1
  /\ Render(connected, TRUE)
  /\ session' = Brought(session)
  /\ last' = Ev("init_ok", 0)
  /\ UNCHANGED << connected, angles, isConnected, connects, disconnects, fetches, retry >>

\* invoke("init").catch: window.alert(e); invoke("disconnect")
InitFail ==
  /\ inits > 0
  /\ inits' = inits - 1
  /\ disconnects' = disconnects + 1
  /\ last' = Ev("init_failed", 0)
  /\ UNCHANGED << connected, initialized, angles, isConnected, connects, fetches, timers,
                  mounted, jc, cmds, session, retry >>

\* invoke("disconnect").then: connected = false
DisconnectOk ==
  /\ disconnects > 0
  /\ disconnects' = disconnects - 1
  /\ connected' = FALSE
  /\ Render(FALSE, initialized)
  /\ session' = Unlinked(session)
  /\ last' = Ev("disconnect_ok", 0)
  /\ UNCHANGED << initialized, angles, isConnected, connects, inits, fetches, timers, retry >>

\* invoke("disconnect") rejected: no handler
DisconnectFail ==
  /\ disconnects > 0
  /\ disconnects' = disconnects - 1
  /\ last' = Ev("disconnect_failed", 0)
  /\ UNCHANGED << connected, initialized, angles, isConnected, connects, inits, fetches,
                  timers, mounted, jc, cmds, session, retry >>

\* the interval callback: invoke("get_angles")
Tick ==
  /\ timers > 0
  /\ InFlight < MaxInFlight
  /\ fetches' = fetches + 1
  /\ last' = Ev("tick", 0)
  /\ UNCHANGED << connected, initialized, angles, isConnected, connects, inits, disconnects,
                  timers, mounted, jc, cmds, session, retry >>

\* received.forEach((angle, i) => angles[i] = angle); angles = [...angles]
Assigned(a, received) ==
  [i \in 1 .. (IF Len(received) > Len(a) THEN Len(received) ELSE Len(a)) |->
     IF i <= Len(received) THEN received[i] ELSE a[i]]

\* get_angles resolved with an array
FetchArray(received) ==
  /\ fetches > 0
  /\ fetches' = fetches - 1
  /\ angles' = Assigned(angles, received)
  /\ last' = Ev("get_angles_array", Len(received))
  /\ UNCHANGED << connected, initialized, isConnected, connects, inits, disconnects,
                  timers, mounted, jc, cmds, session, retry >>

\* get_angles resolved with a value Array.isArray rejects
FetchNonArray ==
  /\ fetches > 0
  /\ fetches' = fetches - 1
  /\ last' = Ev("get_angles_nonarray", 0)
  /\ UNCHANGED << connected, initialized, angles, isConnected, connects, inits, disconnects,
                  timers, mounted, jc, cmds, session, retry >>

\* FetchFail with a seeded fault: the catch handler clears an interval
FetchFailClears ==
  /\ fetches > 0
  /\ fetches' = fetches - 1
  /\ timers' = timers - 1
  /\ last' = Ev("get_angles_failed", 0)
  /\ UNCHANGED << connected, initialized, angles, isConnected, connects, inits, disconnects,
                  mounted, jc, cmds, session, retry >>

\* get_angles rejected: console.error(e)
FetchFail ==
  /\ fetches > 0
  /\ fetches' = fetches - 1
  /\ last' = Ev("get_angles_failed", 0)
  /\ UNCHANGED << connected, initialized, angles, isConnected, connects, inits, disconnects,
                  timers, mounted, jc, cmds, session, retry >>

\* the "Calibrate All" button: invoke("calibrate", { joints: 0b111111 }); the
\* promise is dropped, so the request leaves no trace but last
ClickCalibrate ==
  /\ mounted
  /\ last' = Ev("calibrate", CalibrateAll)
  /\ UNCHANGED << app, mounted, jc, cmds, session >>

Init ==
  /\ connected = FALSE
  /\ initialized = FALSE
  /\ angles = [i \in 1 .. NJoints |-> 0]
  /\ isConnected = TRUE
  /\ connects = 0
  /\ inits = 0
  /\ disconnects = 0
  /\ fetches = 0
  /\ timers = 0
  /\ retry = FALSE
  /\ mounted = FALSE
  /\ jc = [j \in Operated |-> Fresh(0)]
  /\ cmds = << >>
  /\ session = "Disconnected"
  /\ last = Ev("load", 0)

Next ==
  \/ \E b \in BOOLEAN : IsConnectedOk(b)
  \/ IsConnectedFail
  \/ ClickConnect
  \/ ConnectOk
  \/ ConnectFail
  \/ InitOk
  \/ InitFail
  \/ DisconnectOk
  \/ DisconnectFail
  \/ Tick
  \/ \E r \in Received : FetchArray(r)
  \/ FetchNonArray
  \/ FetchFail
  \/ ClickCalibrate
  \/ \E j \in Operated, v \in AppAngleInputs : SetAngleInput(j, v)
  \/ \E j \in Operated, v \in AppSpeedInputs : SetSpeedInput(j, v)
  \/ \E j \in Operated : SubmitForm(j)
  \/ \E j \in Operated : ClickSubmit(j)
  \/ \E j \in Operated : ClickStop(j)
  \/ \E i \in 1 .. MaxInFlight + 1 : CmdOk(i)
  \/ \E i \in 1 .. MaxInFlight + 1 : CmdFail(i)

Spec == Init /\ [][Next]_vars

\* -------------------------------------------------- JointControl alone
\* One session that is up: is_connected answered true and init succeeded
\* (two steps of Spec). The user types bound values into the controls while
\* telemetry keeps arriving; the session itself does not change.
JointInit ==
  /\ connected = TRUE
  /\ initialized = TRUE
  /\ angles = [i \in 1 .. NJoints |-> 0]
  /\ isConnected = FALSE
  /\ connects = 0
  /\ inits = 0
  /\ disconnects = 0
  /\ fetches = 0
  /\ timers = 1
  /\ retry = FALSE
  /\ mounted = TRUE
  /\ jc = [j \in Operated |-> Fresh(0)]
  /\ cmds = << >>
  /\ session = "Ready"
  /\ last = Ev("init_ok", 0)

JointNext ==
  \/ Tick
  \/ \E r \in JointReceived : FetchArray(r)
  \/ FetchNonArray
  \/ FetchFail
  \/ ClickCalibrate
  \/ \E j \in Operated, v \in AngleInputs : SetAngleInput(j, v)
  \/ \E j \in Operated, v \in SpeedInputs : SetSpeedInput(j, v)
  \/ \E j \in Operated : SubmitForm(j)
  \/ \E j \in Operated : ClickSubmit(j)
  \/ \E j \in Operated : ClickStop(j)
  \/ \E i \in 1 .. MaxInFlight + 1 : CmdOk(i)
  \/ \E i \in 1 .. MaxInFlight + 1 : CmdFail(i)

JointSpec == JointInit /\ [][JointNext]_vars

\* ------------------------------------- the App that polls from load on
\* An earlier App (src/unnamed/part_000, 93-159): no connect, no init; the
\* interval is set when the script runs and the controls are always
\* rendered. connected and initialized do not exist there and stay false.
PollInit ==
  /\ connected = FALSE
  /\ initialized = FALSE
  /\ angles = [i \in 1 .. NJoints |-> 0]
  /\ isConnected = FALSE
  /\ connects = 0
  /\ inits = 0
  /\ disconnects = 0
  /\ fetches = 0
  /\ timers = 1
  /\ retry = FALSE
  /\ mounted = TRUE
  /\ jc = [j \in Operated |-> Fresh(0)]
  /\ cmds = << >>
  /\ session = "Disconnected"
  /\ last = Ev("load", 0)

\* the interval callback: invoke("get_position")
PollTick ==
  /\ timers > 0
  /\ InFlight < MaxInFlight
  /\ fetches' = fetches + 1
  /\ last' = Ev("tick", 0)
  /\ UNCHANGED << connected, initialized, angles, isConnected, connects, inits, disconnects,
                  timers, mounted, jc, cmds, session, retry >>

\* .then((angles) => ... angles[i] = angle): the parameter shadows the
\* component's angles, the loop writes the received array onto itself
PollFetchArray(received) ==
  /\ fetches > 0
  /\ fetches' = fetches - 1
  /\ last' = Ev("get_angles_array", Len(received))
  /\ UNCHANGED << connected, initialized, angles, isConnected, connects, inits, disconnects,
                  timers, mounted, jc, cmds, session, retry >>

PollNext ==
  \/ PollTick
  \/ \E r \in Received : PollFetchArray(r)
  \/ FetchNonArray
  \/ FetchFail
  \/ \E j \in Operated, v \in AppAngleInputs : SetAngleInput(j, v)
  \/ \E j \in Operated, v \in AppSpeedInputs : SetSpeedInput(j, v)
  \/ \E j \in Operated : SubmitForm(j)
  \/ \E j \in Operated : ClickSubmit(j)
  \/ \E j \in Operated : ClickStop(j)
  \/ \E i \in 1 .. MaxInFlight + 1 : CmdOk(i)
  \/ \E i \in 1 .. MaxInFlight + 1 : CmdFail(i)

PollSpec == PollInit /\ [][PollNext]_vars

\* ------------------------------------------------------------------
\* src/unnamed/part_000 lines 1-91: init() runs at load, awaits connect,
\* then awaits init whatever connect answered, and re-runs itself one second
\* after a rejected init.  There is no connected flag and no disconnect; the
\* controls are rendered under {#if initialized}.
RetryInit ==
  /\ connected = FALSE
  /\ initialized = FALSE
  /\ angles = [i \in 1 .. NJoints |-> 0]
  /\ isConnected = FALSE
  /\ connects = 1
  /\ inits = 0
  /\ disconnects = 0
  /\ fetches = 0
  /\ timers = 0
  /\ retry = FALSE
  /\ mounted = FALSE
  /\ jc = [j \in Operated |-> Fresh(0)]
  /\ cmds = << >>
  /\ session = "Disconnected"
  /\ last = Ev("connect", 0)

\* await invoke("connect").then(log) ; await invoke("init")
RetryConnectOk ==
  /\ connects > 0
  /\ connects' = connects - 1
  /\ inits' = inits + 1
  /\ session' = Linked(session)
  /\ last' = Ev("connect_ok", 0)
  /\ UNCHANGED << connected, initialized, angles, isConnected, disconnects, fetches,
                  timers, retry, mounted, jc, cmds >>

\* await invoke("connect").catch(console.error) ; await invoke("init")
RetryConnectFail ==
  /\ connects > 0
  /\ connects' = connects - 1
  /\ inits' = inits + 1
  /\ last' = Ev("connect_failed", 0)
  /\ UNCHANGED << connected, initialized, angles, isConnected, disconnects, fetches,
                  timers, retry, mounted, jc, cmds, session >>

\* invoke("init").then: initialized = true, setInterval(..., 1000); the
\* {#if initialized} block creates the controls
RetryInitOk ==
  /\ inits > 0
  /\ inits' = inits - 1
  /\ initialized' = TRUE
  /\ timers' = timers + 1
  /\ mounted' = TRUE
  /\ jc' = IF mounted THEN jc ELSE [j \in Operated |-> Fresh(AngleProp(j))]
  /\ session' = Brought(session)
  /\ last' = Ev("init_ok", 0)
  /\ UNCHANGED << connected, angles, isConnected, connects, disconnects, fetches,
                  retry, cmds >>

\* invoke("init").catch: console.error(e); setTimeout(init, 1000)
RetryInitFail ==
  /\ inits > 0
  /\ inits' = inits - 1
  /\ retry' = TRUE
  /\ last' = Ev("init_failed", 0)
  /\ UNCHANGED << connected, initialized, angles, isConnected, connects, disconnects,
                  fetches, timers, mounted, jc, cmds, session >>

\* the timeout fires: init() again, which invokes connect again
RetryTimeout ==
  /\ retry
  /\ retry' = FALSE
  /\ connects' = connects + 1
  /\ last' = Ev("connect", 0)
  /\ UNCHANGED << connected, initialized, angles, isConnected, inits, disconnects,
                  fetches, timers, mounted, jc, cmds, session >>

RetryNext ==
  \/ RetryConnectOk
  \/ RetryConnectFail
  \/ RetryInitOk
  \/ RetryInitFail
  \/ RetryTimeout
  \/ PollTick
  \/ \E r \in Received : PollFetchArray(r)
  \/ FetchNonArray
  \/ FetchFail
  \/ \E j \in Operated, v \in AppAngleInputs : SetAngleInput(j, v)
  \/ \E j \in Operated, v \in AppSpeedInputs : SetSpeedInput(j, v)
  \/ \E j \in Operated : SubmitForm(j)
  \/ \E j \in Operated : ClickSubmit(j)
  \/ \E j \in Operated : ClickStop(j)
  \/ \E i \in 1 .. MaxInFlight + 1 : CmdOk(i)
  \/ \E i \in 1 .. MaxInFlight + 1 : CmdFail(i)

RetrySpec == RetryInit /\ [][RetryNext]_vars

\* ------------------------------------------------------------------
\* The calibrate command that invoke("calibrate", { joints }) reaches is not
\* part of the front end; it is modelled from spec.md section 4.3: the mask
\* selects joints by bit (bit i, joint i), the command fails if the mask
\* selects no joint or refers to an index out of range, and otherwise
\* submits one calibration request for the selected joints.
Masks == 0 .. (2 ^ (NJoints + 1) - 1)

\* calibrateFails with a seeded fault: only the empty mask fails
calibrateFailsOnEmptyOnly(mask) == mask = 0

calibrateFails(mask) == mask = 0 \/ mask >= 2 ^ NJoints

calibrate(mask) ==
  /\ mounted
  /\ last' = Ev(IF calibrateFails(mask) THEN "calibrate_failed" ELSE "calibrate", mask)
  /\ UNCHANGED << app, mounted, jc, cmds, session >>

CalibrateNext ==
  \/ ClickCalibrate
  \/ \E mask \in Masks : calibrate(mask)

CalibrateSpec == JointInit /\ [][CalibrateNext]_vars

\* ================================================================ claims
Submits == {"submit_form", "click_submit"}
EverReady == session \in {"Ready", "Closed", "Reconnected"}
LeftReady == session \in {"Closed", "Reconnected"}
\* an input that is empty, below lo or above hi
Outside(x, lo, hi) == x = Null \/ x[1] < lo \/ x[1] > hi

\* C1: a move_to of joint j (the form's submit, a click on Submit) whose
\* angle or speed input is empty or out of range sends no request and leaves
\* the commanded angle and speed of j as they were.
C1_InvalidMoveNotSent ==
  [][\A j \in Operated :
       (last'.op \in Submits /\ last'.n = j
        /\ (Outside(jc[j].angleInput, minAngle, maxAngle)
            \/ Outside(jc[j].speedInput, minSpeed, maxSpeed)))
       => (cmds' = cmds /\ Commanded(j)' = Commanded(j))]_vars

\* C1's case: Submit was clicked with the angle one beyond the maximum, after
\* an earlier move had been committed; nothing is in flight
C1_Witness ==
  \E j \in Operated :
    /\ last = Ev("click_submit", j)
    /\ jc[j].angleInput = Num(maxAngle + 1)
    /\ jc[j].speedInput = Num(maxSpeed)
    /\ Commanded(j) = << minAngle, maxSpeed >>
    /\ cmds = << >>

\* C2: in every state the commanded angle of every joint is 0 or within
\* [minAngle, maxAngle] and its commanded speed within [minSpeed, maxSpeed].
C2_CommandedInRange ==
  \A j \in Operated :
    /\ jc[j].targetAngle = 0 \/ (minAngle <= jc[j].targetAngle /\ jc[j].targetAngle <= maxAngle)
    /\ minSpeed <= jc[j].targetSpeed /\ jc[j].targetSpeed <= maxSpeed

\* C2's case: a move to the bounds themselves was acknowledged
C2_Witness ==
  \E j \in Operated : last.op = "move_joint_ok" /\ Commanded(j) = << maxAngle, maxSpeed >>

\* C3: the commanded angle and speed of a joint change only when the backend
\* acknowledges a command; the acknowledgment of move_to(j, angle, speed)
\* makes them (angle, speed); a rejection leaves them as they were. (Read on
\* the controls that exist after the step.)
C3_CommandedOnlyOnAck ==
  [][\A j \in Operated :
       mounted' =>
         /\ Commanded(j)' # Commanded(j) => last'.op \in {"move_joint_ok", "stop_joint_ok"}
         /\ \A i \in DOMAIN cmds :
              (last' = Ev("move_joint_ok", i) /\ cmds[i].joint = j)
              => Commanded(j)' = << cmds[i].angle, cmds[i].speed >>
         /\ last'.op \in {"move_joint_failed", "stop_joint_failed"}
              => Commanded(j)' = Commanded(j)]_vars

\* C4: acknowledgments for one joint apply in submission order: the
\* acknowledgment of a move that a later submitted, already acknowledged move
\* of the same joint has overtaken does not change the commanded state.
C4_AcksInSubmissionOrder ==
  [][\A i \in DOMAIN cmds, j \in Operated :
       (last' = Ev("move_joint_ok", i) /\ cmds[i].joint = j /\ cmds[i].live
        /\ cmds[i].overtaken)
       => Commanded(j)' = Commanded(j)]_vars

\* C5: at most one telemetry fetch is in flight.
C5_AtMostOneFetch == fetches <= 1

\* C6: a fetch that resolves with an array of another length than the joint
\* count changes no measured angle and leaves angles with NJoints entries.
C6_WrongLengthDiscarded ==
  [][(last'.op = "get_angles_array" /\ last'.n # NJoints)
     => (angles' = angles /\ Len(angles') = NJoints)]_vars

\* C7: a fetch that fails or resolves with no array changes neither
\* connected, initialized and the session nor any measured angle, and clears
\* no interval: the timer that issued it is still there.
C7_FetchFailureIsAdvisory ==
  [][last'.op \in {"get_angles_failed", "get_angles_nonarray"}
     => /\ connected' = connected
        /\ initialized' = initialized
        /\ session' = session
        /\ angles' = angles
        /\ timers' = timers
        /\ timers' > 0]_vars

\* C7's case: a fetch resolved with no array in a Ready session whose
\* earlier fetch had been applied
C7_Witness ==
  /\ last.op = "get_angles_nonarray"
  /\ session = "Ready"
  /\ connected /\ initialized
  /\ AngleProp(2) = maxAngle
  /\ timers > 0

\* C8: once the session has left Ready through a disconnect, and until a
\* session is Ready again, no step issues a fetch or changes a measured angle.
C8_NoTelemetryAfterDisconnect ==
  [][LeftReady => (fetches' <= fetches /\ angles' = angles)]_vars

\* C9: a move_joint, stop_joint or calibrate request is sent only while the
\* session is Ready.
C9_CommandsOnlyWhenReady ==
  [][(Len(cmds') > Len(cmds) \/ last'.op = "calibrate") => session = "Ready"]_vars

\* C10: a telemetry fetch is issued only after an init has succeeded on a
\* connected session.
C10_PollingOnlyAfterReady ==
  [][fetches' > fetches => EverReady]_vars

\* the backend holds a link for the session
Held(s) == s \in {"Connected", "Ready", "Reconnected"}

\* C11: after a rejected init the session ends Disconnected whatever the
\* disconnect request answers: once every request has been answered the
\* session is not left connected and not initialized.
C11_InitFailureEndsDisconnected == (InFlight = 0) => ~(connected /\ ~initialized)

\* C12: an init request is sent only when a connect (or a positive
\* is_connected answer) of the current session has succeeded, and a rejected
\* connect sends no init request, starts no new connect and leaves the
\* session as it was.
C12_InitOnlyFromConnected ==
  [][/\ inits' > inits => Held(session')
     /\ last'.op = "connect_failed" =>
          /\ inits' = inits
          /\ connects' = connects - 1
          /\ ~retry'
          /\ connected' = connected
          /\ session' = session]_vars

\* C13: a connect request is sent only while no connect is in flight and
\* the session holds no link.
C13_ConnectOnlyFromDisconnected ==
  [][connects' > connects => (connects = 0 /\ ~Held(session))]_vars

\* C14: the acknowledgment of stop(j) leaves the commanded angle and speed
\* of joint j at 0, whatever they were before. (Read on the controls that
\* exist after the step.)
C14_StopAckZeroesCommanded ==
  [][\A i \in DOMAIN cmds, j \in Operated :
       (last' = Ev("stop_joint_ok", i) /\ cmds[i].joint = j /\ mounted')
       => Commanded(j)' = << 0, 0 >>]_vars

C16_BoundsInclusive ==
  [][\A j \in Operated :
       (last'.op \in Submits /\ last'.n = j) =>
         /\ (/\ jc[j].angleInput \in {Num(minAngle), Num(maxAngle)}
             /\ jc[j].speedInput \in {Num(minSpeed), Num(maxSpeed)})
            => cmds' = Append(cmds, Move(j, jc[j].angleInput[1], jc[j].speedInput[1]))
         /\ (\/ jc[j].angleInput \in {Num(minAngle - 1), Num(maxAngle + 1)}
             \/ jc[j].speedInput \in {Num(minSpeed - 1), Num(maxSpeed + 1)})
            => cmds' = cmds]_vars

\* a click on Submit has sent move_joint with the angle at its lower and the
\* speed at its upper bound
C16_Witness ==
  \E j \in Operated :
    /\ last = Ev("click_submit", j)
    /\ cmds # << >>
    /\ cmds[Len(cmds)] = Move(j, minAngle, maxSpeed)

Selected(mask) == {i \in 0 .. NJoints : (mask \div (2 ^ i)) % 2 = 1}

\* C18: a calibrate whose mask selects no joint or selects a joint outside
\* 0..5 fails and sends no request; any other mask sends one calibration
\* request carrying exactly the joints selected.
C18_CalibrateMaskChecked ==
  [][\A mask \in Masks :
       (last'.op \in {"calibrate", "calibrate_failed"} /\ last'.n = mask) =>
         /\ last'.op = "calibrate" <=> (Selected(mask) # {} /\ Selected(mask) \subseteq Joints)
         /\ cmds' = cmds]_vars

\* a calibrate whose mask selects joint 6 only has failed
C18_Witness == last = Ev("calibrate_failed", 2 ^ NJoints)

\* C19: at most one telemetry polling timer is ever active: the success
\* branch of init, which creates the interval, runs at most once.
C19_AtMostOneTimer == timers <= 1

\* C20: in every state initialized implies connected.
C20_InitializedImpliesConnected == initialized => connected
====
